---- MODULE Spec2Model ----
(***************************************************************************)
(* The receipt text parsing engine of cloud_function/receipt_extractor     *)
(* (parser.py): normalize_text, extract_merchant, extract_date,            *)
(* extract_total, extract_items and parse_receipt_text_, and the request   *)
(* pipeline around it (main.py, extractor.py): main and                    *)
(* process_drive_file with the replies of Drive, PyMuPDF and Vision.       *)
(*                                                                         *)
(* A string is a sequence of characters, a character a one-symbol string.  *)
(* The letters U+00C4/U+00E4 (A/a with diaeresis), U+00D6/U+00F6 and       *)
(* U+00C5/U+00E5 are written "AE"/"ae", "OE"/"oe" and "AA"/"aa", each one  *)
(* character.  An amount is an integer number of cents, the value that     *)
(* float() gives to a <digits><sep><2 digits> string times 100.  The       *)
(* cursor i of extract_items is 0-based as in the code: the line under the *)
(* cursor is lines[i + 1].                                                 *)
(***************************************************************************)
EXTENDS Integers, Sequences, FiniteSets, TLC

\* ------------------------------------------------------------ characters

Digits == {"0", "1", "2", "3", "4", "5", "6", "7", "8", "9"}

DigitVal(c) ==
    CASE c = "0" -> 0 [] c = "1" -> 1 [] c = "2" -> 2 [] c = "3" -> 3
      [] c = "4" -> 4 [] c = "5" -> 5 [] c = "6" -> 6 [] c = "7" -> 7
      [] c = "8" -> 8 [] c = "9" -> 9

\* [A-Z] and [a-z] of the regular expressions (ASCII ranges).
AsciiUpper ==
    {"A", "B", "C", "D", "E", "F", "G", "H", "I", "J", "K", "L", "M", "N",
     "O", "P", "Q", "R", "S", "T", "U", "V", "W", "X", "Y", "Z"}

AsciiLower ==
    {"a", "b", "c", "d", "e", "f", "g", "h", "i", "j", "k", "l", "m", "n",
     "o", "p", "q", "r", "s", "t", "u", "v", "w", "x", "y", "z"}

LowerLetters ==
    <<"a", "b", "c", "d", "e", "f", "g", "h", "i", "j", "k", "l", "m", "n",
      "o", "p", "q", "r", "s", "t", "u", "v", "w", "x", "y", "z",
      "ae", "oe", "aa">>

UpperLetters ==
    <<"A", "B", "C", "D", "E", "F", "G", "H", "I", "J", "K", "L", "M", "N",
      "O", "P", "Q", "R", "S", "T", "U", "V", "W", "X", "Y", "Z",
      "AE", "OE", "AA">>

IsLowerChar(c) == \E k \in DOMAIN LowerLetters : LowerLetters[k] = c

IsUpperChar(c) == \E k \in DOMAIN UpperLetters : UpperLetters[k] = c

\* str.upper() and str.lower(), one character.
UpperChar(c) ==
    IF IsLowerChar(c)
    THEN UpperLetters[CHOOSE k \in DOMAIN LowerLetters : LowerLetters[k] = c]
    ELSE c

LowerChar(c) ==
    IF IsUpperChar(c)
    THEN LowerLetters[CHOOSE k \in DOMAIN UpperLetters : UpperLetters[k] = c]
    ELSE c

\* What str.strip() removes and \s matches.
Whitespace == {" ", "\t", "\n", "\r"}

IsSpace(c) == c \in Whitespace

IsDigit(c) == c \in Digits

\* [.,] of the amount patterns.
IsDecimalSep(c) == c \in {".", ","}

\* --------------------------------------------------------------- strings

\* s[a .. b-1] with 1-based a: the slice between two positions.
Slice(s, a, b) == SubSeq(s, a, b - 1)

\* s[a:] of the code, for a 1-based position a.
From(s, a) == SubSeq(s, a, Len(s))

Upper(s) == [k \in DOMAIN s |-> UpperChar(s[k])]

Lower(s) == [k \in DOMAIN s |-> LowerChar(s[k])]

\* str.isupper(): at least one cased character and no lower-case one.
IsUpper(s) ==
    /\ \E k \in DOMAIN s : IsUpperChar(s[k])
    /\ \A k \in DOMAIN s : ~IsLowerChar(s[k])

\* t occurs in s at position p.
OccursAt(s, t, p) ==
    /\ p >= 1
    /\ p + Len(t) - 1 <= Len(s)
    /\ \A k \in 1..Len(t) : s[p + k - 1] = t[k]

\* str.startswith(t)
StartsWith(s, t) == OccursAt(s, t, 1)

\* t in s
Contains(s, t) == \E p \in 1..(Len(s) + 1) : OccursAt(s, t, p)

\* str.strip()
Strip(s) ==
    LET keep == {k \in DOMAIN s : ~IsSpace(s[k])}
    IN  IF keep = {} THEN <<>>
        ELSE LET a == CHOOSE k \in keep : \A j \in keep : k <= j
                 b == CHOOSE k \in keep : \A j \in keep : j <= k
             IN  SubSeq(s, a, b)

\* The end (exclusive) of the longest run of characters of class C that
\* starts at p; p itself when s[p] is not in C.
RECURSIVE RunEnd(_, _, _)
RunEnd(s, p, C) ==
    IF p <= Len(s) /\ s[p] \in C THEN RunEnd(s, p + 1, C) ELSE p

\* The least element of a non-empty set of positions.
Least(S) == CHOOSE p \in S : \A q \in S : p <= q

\* --------------------------------------------------------------- amounts

\* s[a .. b-1] is \d+[.,]\d{2}
IsAmountSlice(s, a, b) ==
    /\ a >= 1
    /\ b <= Len(s) + 1
    /\ b - a >= 4
    /\ IsDigit(s[b - 1])
    /\ IsDigit(s[b - 2])
    /\ IsDecimalSep(s[b - 3])
    /\ \A k \in a..(b - 4) : IsDigit(s[k])

\* The value of a digit string.
RECURSIVE IntOf(_)
IntOf(ds) ==
    IF ds = <<>> THEN 0
    ELSE 10 * IntOf(SubSeq(ds, 1, Len(ds) - 1)) + DigitVal(ds[Len(ds)])

\* float(t.replace(",", ".")) for t = <digits><sep><2 digits>, in cents.
AmountOf(t) ==
    100 * IntOf(SubSeq(t, 1, Len(t) - 3)) + IntOf(SubSeq(t, Len(t) - 1, Len(t)))

\* -------------------------------------------------------- normalize_text

LF == "\n"

CR == "\r"

\* ReplaceCR without the replacement.
KeepCR(text) == text

\* text.replace("\r", "\n")
ReplaceCR(text) == [k \in DOMAIN text |-> IF text[k] = CR THEN LF ELSE text[k]]

\* str.split("\n"): the pieces between newlines, empty ones included.
RECURSIVE SplitLines(_)
SplitLines(s) ==
    LET nl == {p \in DOMAIN s : s[p] = LF}
    IN  IF nl = {} THEN <<s>>
        ELSE <<Slice(s, 1, Least(nl))>> \o SplitLines(From(s, Least(nl) + 1))

\* [l.strip() for l in text.replace("\r", "\n").split("\n") if l.strip()]
normalize_text(text) ==
    LET parts == SplitLines(ReplaceCR(text))
        stripped == [k \in DOMAIN parts |-> Strip(parts[k])]
    IN  SelectSeq(stripped, LAMBDA l : l # <<>>)

\* ---------------------------------------------------------- extract_date

\* lines[:20]
DateWindow == 20

\* \d{1,2} followed by "\.": the number of digits (1 or 2) that \d{1,2}
\* takes at p so that a "." follows, 0 when neither does.
DayMonthLen(s, p) ==
    IF p + 2 <= Len(s) /\ IsDigit(s[p]) /\ IsDigit(s[p + 1]) /\ s[p + 2] = "."
    THEN 2
    ELSE IF p + 1 <= Len(s) /\ IsDigit(s[p]) /\ s[p + 1] = "."
    THEN 1
    ELSE 0

\* DATE_RE = (\d{1,2})\.(\d{1,2})\.(\d{4}) matches at position p.
DateMatchAt(s, p) ==
    LET d == DayMonthLen(s, p)
        m == DayMonthLen(s, p + d + 1)
        y == p + d + 1 + m + 1
    IN  /\ p >= 1
        /\ d > 0
        /\ m > 0
        /\ y + 3 <= Len(s)
        /\ \A k \in y..(y + 3) : IsDigit(s[k])

\* DATE_RE.search(l) finds a match.
HasDate(s) == \E p \in DOMAIN s : DateMatchAt(s, p)

\* ZFill2 without the padding.
ZFill2Off(t) == t

\* str.zfill(2) of a digit string.
ZFill2(t) == IF Len(t) < 2 THEN <<"0">> \o t ELSE t

\* f"{y}-{mth.zfill(2)}-{d.zfill(2)}" for the leftmost match in s.
IsoOfFirstDate(s) ==
    LET p == Least({q \in DOMAIN s : DateMatchAt(s, q)})
        d == DayMonthLen(s, p)
        m == DayMonthLen(s, p + d + 1)
        y == p + d + 1 + m + 1
    IN  Slice(s, y, y + 4) \o <<"-">> \o ZFill2(Slice(s, p + d + 1, p + d + 1 + m))
            \o <<"-">> \o ZFill2(Slice(s, p, p + d))

Min(a, b) == IF a <= b THEN a ELSE b

extract_date(lines) ==
    LET hits == {k \in 1..Min(DateWindow, Len(lines)) : HasDate(lines[k])}
    IN  IF hits = {} THEN <<>> ELSE IsoOfFirstDate(lines[Least(hits)])

\* --------------------------------------------------------- extract_total

YHTEENSA == <<"Y", "H", "T", "E", "E", "N", "S", "AE">>

TOTAL == <<"T", "O", "T", "A", "L">>

SUMMA == <<"S", "U", "M", "M", "A">>

\* The value returned when no marker line resolves (None in the code).
None == -1

\* "YHTEENSA" in l.upper() or "TOTAL" in l.upper() or "SUMMA" in l.upper()
IsTotalMarker(l) ==
    \/ Contains(Upper(l), YHTEENSA)
    \/ Contains(Upper(l), TOTAL)
    \/ Contains(Upper(l), SUMMA)

\* TOTAL_RE = ^YHTEENSA\s+(\d+[.,]\d{2}) with re.I: where the whitespace
\* run and the digit run after the marker end.
TotalWsEnd(l) == RunEnd(l, Len(YHTEENSA) + 1, Whitespace)

TotalDigitsEnd(l) == RunEnd(l, TotalWsEnd(l), Digits)

\* TOTAL_RE.search(l) finds a match.
TotalSameLine(l) ==
    /\ StartsWith(Upper(l), YHTEENSA)
    /\ TotalWsEnd(l) > Len(YHTEENSA) + 1
    /\ TotalDigitsEnd(l) > TotalWsEnd(l)
    /\ TotalDigitsEnd(l) + 2 <= Len(l)
    /\ IsDecimalSep(l[TotalDigitsEnd(l)])
    /\ IsDigit(l[TotalDigitsEnd(l) + 1])
    /\ IsDigit(l[TotalDigitsEnd(l) + 2])

\* float(m.group(1).replace(",", "."))
TotalSameLineAmount(l) == AmountOf(Slice(l, TotalWsEnd(l), TotalDigitsEnd(l) + 3))

\* re.match(r'^(\d+[.,]\d{2})\s*$', l)
IsAmountThenSpace(l) ==
    LET e == RunEnd(l, 1, Digits) + 3
    IN  /\ IsAmountSlice(l, 1, e)
        /\ \A k \in e..Len(l) : IsSpace(l[k])

AmountThenSpaceValue(l) == AmountOf(Slice(l, 1, RunEnd(l, 1, Digits) + 3))

\* range(i + 1, min(i + 5, len(lines))) for the 0-based marker index i
TotalLookahead == 5

\* LookaheadRange reading one line further.
LookaheadRangeWide(lines, k) == (k + 1)..Min(k + TotalLookahead, Len(lines))

\* The 1-based indices the lookahead of the marker line at 1-based k reads.
LookaheadRange(lines, k) == (k + 1)..Min(k + TotalLookahead - 1, Len(lines))

\* The marker line at 1-based k yields an amount.
TotalResolves(lines, k) ==
    /\ IsTotalMarker(lines[k])
    /\ \/ TotalSameLine(lines[k])
       \/ \E j \in LookaheadRange(lines, k) : IsAmountThenSpace(lines[j])

\* TotalAt with the lookahead tried before the same-line match.
TotalAtLookaheadFirst(lines, k) ==
    LET ahead == {j \in LookaheadRange(lines, k) : IsAmountThenSpace(lines[j])}
    IN  IF ahead # {} THEN AmountThenSpaceValue(lines[Least(ahead)])
        ELSE TotalSameLineAmount(lines[k])

\* What the body of the outer loop returns for a marker line that resolves.
TotalAt(lines, k) ==
    IF TotalSameLine(lines[k]) THEN TotalSameLineAmount(lines[k])
    ELSE AmountThenSpaceValue(
             lines[Least({j \in LookaheadRange(lines, k) : IsAmountThenSpace(lines[j])})])

extract_total(lines) ==
    LET hits == {k \in DOMAIN lines : TotalResolves(lines, k)}
    IN  IF hits = {} THEN None ELSE TotalAt(lines, Least(hits))

\* ------------------------------------------------------ extract_merchant

\* lines[:10]
MerchantWindow == 10

\* len(l) > 5
MerchantMinUpperLen == 5

MARKET == <<"m", "a", "r", "k", "e", "t">>

PUH == <<"P", "U", "H">>

TEL == <<"T", "E", "L">>

\* [\s\d\-]
PhoneTail == Whitespace \cup Digits \cup {"-"}

\* [A-Z...a-z...\s] of the postal code pattern, the three extra letters in
\* both cases included.
CityChars == AsciiUpper \cup AsciiLower \cup {"AA", "AE", "OE", "aa", "ae", "oe"} \cup Whitespace

\* Where a match of  \s*<label>\.?\s*\(?\d+\)?[\s\d\-]+  (re.IGNORECASE)
\* that starts at p ends (exclusive); 0 when there is no match at p.  Every
\* quantifier is greedy; \d+ gives one digit back to [\s\d\-]+ when nothing
\* of that class follows the digits (and the optional ")").
PhoneMatchEnd(s, p, label) ==
    LET w  == RunEnd(s, p, Whitespace)
        l  == w + Len(label)
        d  == IF l <= Len(s) /\ s[l] = "." THEN l + 1 ELSE l
        w2 == RunEnd(s, d, Whitespace)
        a  == IF w2 <= Len(s) /\ s[w2] = "(" THEN w2 + 1 ELSE w2
        e  == RunEnd(s, a, Digits)
        t1 == IF e <= Len(s) /\ s[e] = ")" THEN e + 1 ELSE e
        c1 == RunEnd(s, t1, PhoneTail)
    IN  IF ~OccursAt(Upper(s), label, w) \/ e = a THEN 0
        ELSE IF c1 > t1 THEN c1
        ELSE IF e - a >= 2 THEN RunEnd(s, e - 1, PhoneTail)
        ELSE 0

\* re.sub(<phone pattern>, '', s, flags=re.IGNORECASE): every match removed,
\* left to right.
RECURSIVE RemovePhone(_, _)
RemovePhone(s, label) ==
    LET starts == {p \in DOMAIN s : PhoneMatchEnd(s, p, label) > 0}
    IN  IF starts = {} THEN s
        ELSE Slice(s, 1, Least(starts))
                 \o RemovePhone(From(s, PhoneMatchEnd(s, Least(starts), label)), label)

\* \d{5}\s+[A-Z...a-z...\s]+$  matches at q.
PostalTailAt(s, q) ==
    /\ q >= 1
    /\ q + 6 <= Len(s)
    /\ \A k \in q..(q + 4) : IsDigit(s[k])
    /\ IsSpace(s[q + 5])
    /\ \A k \in (q + 5)..Len(s) : s[k] \in CityChars

\* ,?\s*\d{5}\s+[A-Z...a-z...\s]+$  matches at p.
PostalMatchAt(s, p) ==
    \/ PostalTailAt(s, RunEnd(s, p, Whitespace))
    \/ s[p] = "," /\ PostalTailAt(s, RunEnd(s, p + 1, Whitespace))

\* re.sub(r',?\s*\d{5}\s+[A-Z...a-z...\s]+$', '', s)
RemovePostal(s) ==
    LET starts == {p \in DOMAIN s : PostalMatchAt(s, p)}
    IN  IF starts = {} THEN s ELSE Slice(s, 1, Least(starts))

\* The three substitutions and the strip applied to the chosen line.
CleanMerchant(l) == Strip(RemovePostal(RemovePhone(RemovePhone(l, PUH), TEL)))

\* "market" in l.lower()
HasMarket(l) == Contains(Lower(l), MARKET)

\* IsUpperName with >= for > in the length test.
IsUpperNameLoose(l) == IsUpper(l) /\ Len(l) >= MerchantMinUpperLen

\* l.isupper() and len(l) > 5
IsUpperName(l) == IsUpper(l) /\ Len(l) > MerchantMinUpperLen

\* One of the two tests of the loop body holds for l.
IsMerchantLine(l) == HasMarket(l) \/ IsUpperName(l)

extract_merchant(lines) ==
    LET hits == {k \in 1..Min(MerchantWindow, Len(lines)) : IsMerchantLine(lines[k])}
    IN  IF hits # {} THEN CleanMerchant(lines[Least(hits)])
        ELSE IF lines # <<>> THEN CleanMerchant(lines[1])
        ELSE <<>>

\* --------------------------------------------------------- extract_items

CARD_TRANSACTION ==
    <<"C", "A", "R", "D", " ", "T", "R", "A", "N", "S", "A", "C", "T", "I", "O", "N">>

ALV == <<"A", "L", "V">>

KORTTI == <<"K", "O", "R", "T", "T", "I">>

PLUSSA == <<"P", "L", "U", "S", "S", "A">>

BONUS == <<"B", "O", "N", "U", "S">>

PANTTI == <<"P", "A", "N", "T", "T", "I">>

\* l.startswith("YHTEENSA")
StopsAtTotal(l) == StartsWith(l, YHTEENSA)

\* IsSeparator for rules of three dashes or more only.
IsSeparatorLong(l) == Len(l) >= 3 /\ \A k \in DOMAIN l : l[k] = "-"

\* set(l) == {"-"}
IsSeparator(l) == l # <<>> /\ \A k \in DOMAIN l : l[k] = "-"

\* StopsAtCard with startswith for the substring test.
StopsAtCardPrefix(l) == StartsWith(l, CARD_TRANSACTION)

\* "CARD TRANSACTION" in l
StopsAtCard(l) == Contains(l, CARD_TRANSACTION)

\* re.match(r'^(\d+[.,]\d{2})$', next_line) with next_line = lines[i + 1].strip()
IsStandaloneAmount(l) == IsAmountSlice(Strip(l), 1, Len(Strip(l)) + 1)

\* float(standalone_amount.group(1).replace(",", "."))
StandaloneAmount(l) == AmountOf(Strip(l))

\* re.search(r'[A-Z]\d{3,}|M\d{6}', name)
HasCode(name) ==
    \E p \in DOMAIN name :
        \/ /\ name[p] \in AsciiUpper
           /\ p + 3 <= Len(name)
           /\ \A k \in (p + 1)..(p + 3) : IsDigit(name[k])
        \/ /\ name[p] = "M"
           /\ p + 6 <= Len(name)
           /\ \A k \in (p + 1)..(p + 6) : IsDigit(name[k])

\* The end (exclusive) of the run of non-whitespace characters from p.
RECURSIVE NonSpaceEnd(_, _)
NonSpaceEnd(s, p) ==
    IF p <= Len(s) /\ ~IsSpace(s[p]) THEN NonSpaceEnd(s, p + 1) ELSE p

\* Where a match of  \s+\d+[.,]\d+L[^\s]*  (re.IGNORECASE) that starts at p
\* ends (exclusive); 0 when there is no match at p.
VolumeMatchEnd(s, p) ==
    LET a == RunEnd(s, p, Whitespace)
        b == RunEnd(s, a, Digits)
        c == RunEnd(s, b + 1, Digits)
    IN  IF /\ a > p
           /\ b > a
           /\ b <= Len(s)
           /\ IsDecimalSep(s[b])
           /\ c > b + 1
           /\ c <= Len(s)
           /\ s[c] \in {"L", "l"}
        THEN NonSpaceEnd(s, c + 1)
        ELSE 0

\* re.sub(r'\s+\d+[.,]\d+L[^\s]*', '', name, flags=re.IGNORECASE)
RECURSIVE RemoveVolume(_)
RemoveVolume(s) ==
    LET starts == {p \in DOMAIN s : VolumeMatchEnd(s, p) > 0}
    IN  IF starts = {} THEN s
        ELSE Slice(s, 1, Least(starts))
                 \o RemoveVolume(From(s, VolumeMatchEnd(s, Least(starts))))

\* \s+\d+[.,]\d{1,2}$  matches at p.
TrailingDecimalAt(s, p) ==
    LET a == RunEnd(s, p, Whitespace)
        b == RunEnd(s, a, Digits)
    IN  /\ a > p
        /\ b > a
        /\ b <= Len(s)
        /\ IsDecimalSep(s[b])
        /\ Len(s) - b \in {1, 2}
        /\ \A k \in (b + 1)..Len(s) : IsDigit(s[k])

\* re.sub(r'\s+\d+[.,]\d{1,2}$', '', name)
RemoveTrailingDecimal(s) ==
    LET starts == {p \in DOMAIN s : TrailingDecimalAt(s, p)}
    IN  IF starts = {} THEN s ELSE Slice(s, 1, Least(starts))

\* The name of the two-line branch after its two substitutions and strip.
CleanName(l) == Strip(RemoveTrailingDecimal(RemoveVolume(Strip(l))))

\* The prefixes each branch rejects.
PairPrefixes == {ALV, KORTTI, PLUSSA, BONUS, PANTTI}

SamePrefixes == {ALV, KORTTI, PLUSSA, BONUS}

\* name.upper().startswith(prefixes)
HasPrefix(name, prefixes) == \E t \in prefixes : StartsWith(Upper(name), t)

\* len(name) >= 3
MinNameLen == 3

\* ITEM_PRICE_RE = (.*?)(\d+[.,]\d{2})$ : the positions where group 2 can
\* start; the lazy group 1 ends at the least of them.
PriceStarts(l) == {p \in DOMAIN l : IsAmountSlice(l, p, Len(l) + 1)}

\* ITEM_PRICE_RE.match(l) finds a match.
HasTrailingPrice(l) == PriceStarts(l) # {}

\* m.group(1).strip()
SameLineName(l) == Strip(Slice(l, 1, Least(PriceStarts(l))))

\* float(m.group(2).replace(",", "."))
SameLineAmount(l) == AmountOf(From(l, Least(PriceStarts(l))))

\* PairAccepts with > for >= in the length test.
PairAcceptsStrict(name, amount) == Len(name) > MinNameLen /\ amount > 0

\* The two-line accept test: len(name) >= 3 and amount > 0
PairAccepts(name, amount) == Len(name) >= MinNameLen /\ amount > 0

\* The same-line accept test: len(name) >= 3
SameAccepts(name, amount) == Len(name) >= MinNameLen

\* SingleAdvance with the increment lost.
SingleAdvanceNone == 1 - 1

\* PairAdvance stepping past the name line only.
PairAdvanceOne == 2 - 1

\* The step each branch of the loop adds to the cursor.
PairAdvance == 2

SingleAdvance == 1

\* The line under the 0-based cursor i.
LineAt(lines, i) == lines[i + 1]

\* The two-line test: a next line exists and is a standalone amount.
NextIsAmount(lines, i) ==
    i + 1 < Len(lines) /\ IsStandaloneAmount(LineAt(lines, i + 1))

\* Which path through the loop body the line under the cursor takes, in the
\* order the code tests them.
Kind(lines, i) ==
    LET l == LineAt(lines, i)
    IN  IF StopsAtTotal(l) THEN "stop_total"
        ELSE IF IsSeparator(l) THEN "separator"
        ELSE IF StopsAtCard(l) THEN "stop_card"
        ELSE IF NextIsAmount(lines, i)
        THEN IF HasCode(Strip(l)) THEN "pair_code"
             ELSE IF HasPrefix(CleanName(l), PairPrefixes) THEN "pair_prefix"
             ELSE IF PairAccepts(CleanName(l), StandaloneAmount(LineAt(lines, i + 1)))
             THEN "pair_emit"
             ELSE "pair_drop"
        ELSE IF HasTrailingPrice(l)
        THEN IF HasCode(SameLineName(l)) THEN "same_code"
             ELSE IF HasPrefix(SameLineName(l), SamePrefixes) THEN "same_prefix"
             ELSE IF SameAccepts(SameLineName(l), SameLineAmount(l)) THEN "same_emit"
             ELSE "same_drop"
        ELSE "no_match"

\* AppendItem with the item put at the front of the list.
PrependItem(items, name, amount, line, via) ==
    <<[name |-> name, amount |-> amount, line |-> line, via |-> via]>> \o items

\* items.append({"name": name, "amount": amount}); line (the 0-based index
\* of the name line) and via (the branch) record where the item came from.
AppendItem(items, name, amount, line, via) ==
    Append(items, [name |-> name, amount |-> amount, line |-> line, via |-> via])

\* One pass through the loop body at cursor i: the new cursor, the new item
\* list, and whether the loop was left by break.
ScanStep(lines, i, items) ==
    LET l == LineAt(lines, i)
        k == Kind(lines, i)
    IN  IF k \in {"stop_total", "stop_card"}
        THEN [i |-> i, items |-> items, stop |-> TRUE]
        ELSE IF k = "pair_emit"
        THEN [i |-> i + PairAdvance,
              items |-> AppendItem(items, CleanName(l),
                                   StandaloneAmount(LineAt(lines, i + 1)), i, "pair"),
              stop |-> FALSE]
        ELSE IF k \in {"pair_code", "pair_prefix", "pair_drop"}
        THEN [i |-> i + PairAdvance, items |-> items, stop |-> FALSE]
        ELSE IF k = "same_emit"
        THEN [i |-> i + SingleAdvance,
              items |-> AppendItem(items, SameLineName(l), SameLineAmount(l), i, "same"),
              stop |-> FALSE]
        ELSE [i |-> i + SingleAdvance, items |-> items, stop |-> FALSE]

\* The while loop from cursor i on.
RECURSIVE ScanFrom(_, _, _)
ScanFrom(lines, i, items) ==
    IF i >= Len(lines) THEN items
    ELSE LET r == ScanStep(lines, i, items)
         IN  IF r.stop THEN r.items ELSE ScanFrom(lines, r.i, r.items)

extract_items(lines) == ScanFrom(lines, 0, <<>>)

\* --------------------------------------------------- parse_receipt_text_

EUR == <<"E", "U", "R">>

parse_receipt_text_(raw_text) ==
    LET lines == normalize_text(raw_text)
    IN  [merchant |-> extract_merchant(lines),
         date     |-> extract_date(lines),
         total    |-> extract_total(lines),
         currency |-> EUR,
         items    |-> extract_items(lines)]

\* ================================================================ inputs
\* The receipt lines the model feeds to the parser.

L_Volume == <<"T", "e", "a", " ", "0", ",", "5", "L">>

L_Price == <<"2", ",", "1", "9">>

L_Zero == <<"0", ",", "0", "0">>

L_Pantti == <<"P", "A", "N", "T", "T", "I", " ", "0", ",", "2", "0">>

L_Item == <<"T", "e", "a", " ", "1", ",", "5", "0">>

L_Free == <<"B", "a", "g", " ", "0", ",", "0", "0">>

L_Code == <<"K", "0", "2", "1", " ", "1", ",", "0", "0">>

L_Dashes == <<"-", "-">>

L_Total == <<"Y", "H", "T", "E", "E", "N", "S", "AE", " ", "2", ",", "3", "9">>

L_Card == <<"C", "A", "R", "D", " ", "T", "R", "A", "N", "S", "A", "C", "T", "I", "O", "N">>

L_Alv == <<"a", "l", "v", " ", "0", ",", "1", "0">>

L_Short == <<"x", " ", "1", ",", "0", "0">>

L_PaidCard == <<"V", "I", "S", "A", " ", "C", "A", "R", "D", " ", "T", "R", "A", "N", "S", "A", "C", "T", "I", "O", "N", " ", "1">>

L_LowerCard == <<"c", "a", "r", "d", " ", "t", "r", "a", "n", "s", "a", "c", "t", "i", "o", "n">>

L_LowerTotal == <<"y", "h", "t", "e", "e", "n", "s", "ae", " ", "2", ",", "3", "9">>

L_Name == <<"T", "e", "a">>

L_Filler == <<"x">>

L_Blank == <<" ">>

L_PaddedPrice == <<" ", "2", ",", "1", "9", " ">>

L_TabName == <<"\t", "T", "e", "a">>

L_Date == <<"0", "4", ".", "0", "1", ".", "2", "0", "2", "6">>

L_ShortDate == <<"a", " ", "4", ".", "1", ".", "2", "0", "2", "6">>

L_NoYear == <<"1", ".", "2", ".", "2", "0">>

L_LongDate == <<"1", "0", "4", ".", "0", "1", ".", "2", "0", "2", "6", "7">>

L_TwoDates == <<"1", ".", "1", "2", ".", "2", "0", "2", "5", "-", "3", "1", ".", "1", ".", "2", "0", "2", "6">>

L_First == <<"R", "e", "c", "e", "i", "p", "t", " ", "C", "o">>

L_Store == <<"S", "T", "O", "R", "E", "N", "A", "M", "E">>

L_Five == <<"A", "B", "C", "D", "E">>

L_Phone == <<"K", "-", "M", "a", "r", "k", "e", "t", " ", "P", "u", "h", ".", " ", "0", "9", " ", "1", "2">>

L_Postal == <<"K", "m", "a", "r", "k", "e", "t", ",", " ", "0", "0", "1", "0", "0", " ", "O", "u", "l", "u">>

L_Digits == <<"A", "B", "C", " ", "1", "2", "3">>

L_Lower == <<"a", "b", "c", " ", "d", "e", "f">>

L_TotalLine == <<"Y", "H", "T", "E", "E", "N", "S", "AE", " ", "1", "1", ",", "6", "2">>

L_TotalWord == <<"T", "O", "T", "A", "L">>

L_Summa == <<"S", "u", "m", "m", "a">>

L_SubTotal == <<"V", "ae", "l", "i", "s", "u", "m", "m", "a", " ", "1", ",", "0", "0">>

L_Nine == <<"9", ",", "9", "9">>

L_Five00 == <<"5", ",", "0", "0">>

L_TotalTab == <<"y", "h", "t", "e", "e", "n", "s", "ae", "\t", "3", ",", "0", "0">>

\* "\n".join(ls) for a separator sep.
RECURSIVE JoinLines(_, _)
JoinLines(ls, sep) ==
    IF ls = <<>> THEN <<>>
    ELSE IF Len(ls) = 1 THEN ls[1]
    ELSE ls[1] \o sep \o JoinLines(Tail(ls), sep)

\* n copies of line l.
Repeat(l, n) == [k \in 1..n |-> l]

SeqsUpTo(S, n) == UNION {[1..k -> S] : k \in 0..n}

\* The line separators of an input.
Seps == {<<LF>>, <<CR, LF>>, <<CR>>}

\* Item lists: every sequence of up to MaxScanLines lines of ScanPool.
MaxScanLines == 3

ScanPool ==
    {L_Volume, L_Price, L_Zero, L_Pantti, L_Item, L_Free, L_Code, L_Dashes,
     L_Total, L_Card, L_Alv, L_Short}

ScanInputs == SeqsUpTo(ScanPool, MaxScanLines)

\* A line that is or resembles a terminator, between items.
TerminatorInputs ==
    {pre \o <<t>> \o post :
        pre \in {<<>>, <<L_Item>>, <<L_Name, L_Price>>},
        t \in {L_Total, L_Card, L_PaidCard, L_LowerCard, L_LowerTotal},
        post \in {<<L_Name, L_Price>>, <<L_Item>>, <<L_Dashes, L_Name, L_Price>>}}

\* Lines with blank lines and padding between them, for every separator.
MaxEolLines == 3

EolPool == {<<>>, L_Blank, L_TabName, L_PaddedPrice, L_Item, L_Date}

EolInputs == SeqsUpTo(EolPool, MaxEolLines)

\* Date lines after 0..MaxLead lines without a date.
MaxLead == 21

DatePool == {L_Date, L_ShortDate, L_NoYear, L_LongDate, L_TwoDates, L_Filler}

DateInputs ==
    {Repeat(L_Filler, n) \o tl :
        n \in 0..MaxLead,
        tl \in {<<d>> : d \in DatePool} \cup {<<d, e>> : d \in DatePool, e \in DatePool}}

\* A first line, 0..MaxMerchantLead lines that are no merchant line, and a
\* candidate line.
MaxMerchantLead == 10

MerchantPool == {L_Store, L_Five, L_Phone, L_Postal, L_Digits, L_Lower}

MerchantInputs ==
    {<<f>> \o Repeat(L_Filler, n) \o <<c>> :
        f \in {L_First, L_Lower}, n \in 0..MaxMerchantLead, c \in MerchantPool}
    \cup {<<c>> : c \in MerchantPool}

\* A marker line, 0..MaxGap other lines, an amount line, between other
\* marker and amount lines.
MaxGap == 5

TotalInputs ==
    {pre \o <<m>> \o Repeat(L_Filler, n) \o a \o post :
        pre \in {<<>>, <<L_Summa>>, <<L_SubTotal>>, <<L_Nine>>, <<L_TotalWord, L_Filler>>},
        m \in {L_TotalLine, L_TotalWord, L_TotalTab, L_SubTotal},
        n \in 0..MaxGap,
        a \in {<<>>, <<L_Five00>>},
        post \in {<<>>, <<L_TotalWord, L_Nine>>, <<L_TotalLine>>}}

\* Every input: the logical lines and the separator that joins them.
Inputs ==
    {[logical |-> ls, sep |-> <<LF>>] :
        ls \in ScanInputs \cup TerminatorInputs \cup DateInputs
                 \cup MerchantInputs \cup TotalInputs}
    \cup {[logical |-> ls, sep |-> sp] : ls \in EolInputs, sp \in Seps}

\* ================================================================= state

VARIABLES
    logical,    \* the lines the input text was written from (history)
    sep,        \* the separator that joins them in raw_text (history)
    raw_text,   \* the argument of parse_receipt_text_
    pc,         \* where parse_receipt_text_ is
    lines,      \* normalize_text(raw_text)
    merchant,   \* extract_merchant(lines)
    date,       \* extract_date(lines)
    total,      \* extract_total(lines)
    i,          \* the cursor of extract_items
    items,      \* the list extract_items builds
    visited,    \* the cursor values the loop body has run at (history)
    result,     \* the record parse_receipt_text_ returns
    stage,      \* where main and process_drive_file are
    file_id,    \* body.get("fileId") of the request
    meta,       \* the metadata record of the Drive file
    page_count, \* doc.page_count in ocr_scanned_pdf_bytes_
    parts,      \* the page texts ocr_scanned_pdf_bytes_ has collected
    warnings,   \* the warnings list of process_drive_file
    exc,        \* the message of the exception in flight
    calls,      \* the collaborator calls made so far, in order (history)
    response    \* the response main returns

\* The state of the request pipeline around the parser.
pipe == <<stage, file_id, meta, page_count, parts, warnings, exc, calls, response>>

vars == <<logical, sep, raw_text, pc, lines, merchant, date, total, i, items, visited, result,
          stage, file_id, meta, page_count, parts, warnings, exc, calls, response>>

\* The value of meta before the metadata call returns.
NoMeta == [id |-> <<>>, name |-> <<>>, mimeType |-> <<>>]

\* No exception is in flight.
NoExc == <<>>

\* The value of response before main returns.
NoResponse == [ok |-> FALSE, status |-> 0, error |-> <<>>, result |-> <<>>]

\* The pipeline variables when parse_receipt_text_ is called on its own.
PipeIdle ==
    /\ stage = "direct"
    /\ file_id = <<>>
    /\ meta = NoMeta
    /\ page_count = 0
    /\ parts = <<>>
    /\ warnings = <<>>
    /\ exc = NoExc
    /\ calls = <<>>
    /\ response = NoResponse

\* The value of result before the return.
NoResult ==
    [merchant |-> <<>>, date |-> <<>>, total |-> None, currency |-> <<>>, items |-> <<>>]

Init ==
    /\ \E inp \in Inputs :
        /\ logical = inp.logical
        /\ sep = inp.sep
        /\ raw_text = JoinLines(inp.logical, inp.sep)
    /\ pc = "normalize"
    /\ lines = <<>>
    /\ merchant = <<>>
    /\ date = <<>>
    /\ total = None
    /\ i = 0
    /\ items = <<>>
    /\ visited = {}
    /\ result = NoResult
    /\ PipeIdle

\* lines = normalize_text(raw_text)
Normalize ==
    /\ pc = "normalize"
    /\ lines' = normalize_text(raw_text)
    /\ pc' = "merchant"
    /\ UNCHANGED <<logical, sep, raw_text, merchant, date, total, i, items, visited, result>>
    /\ UNCHANGED pipe

\* merchant = extract_merchant(lines)
ExtractMerchant ==
    /\ pc = "merchant"
    /\ merchant' = extract_merchant(lines)
    /\ pc' = "date"
    /\ UNCHANGED <<logical, sep, raw_text, lines, date, total, i, items, visited, result>>
    /\ UNCHANGED pipe

\* date = extract_date(lines)
ExtractDate ==
    /\ pc = "date"
    /\ date' = extract_date(lines)
    /\ pc' = "total"
    /\ UNCHANGED <<logical, sep, raw_text, lines, merchant, total, i, items, visited, result>>
    /\ UNCHANGED pipe

\* total = extract_total(lines); extract_items then starts with items = []
\* and i = 0.
ExtractTotal ==
    /\ pc = "total"
    /\ total' = extract_total(lines)
    /\ pc' = "items"
    /\ i' = 0
    /\ items' = <<>>
    /\ UNCHANGED <<logical, sep, raw_text, lines, merchant, date, visited, result>>
    /\ UNCHANGED pipe

\* The loop body runs at cursor i and takes the path k.
AtKind(k) ==
    /\ pc = "items"
    /\ i < Len(lines)
    /\ Kind(lines, i) = k

\* The effect of one pass through the loop body.
ScanBody ==
    /\ LET r == ScanStep(lines, i, items)
       IN  /\ i' = r.i
           /\ items' = r.items
           /\ pc' = IF r.stop THEN "return" ELSE "items"
    /\ visited' = visited \cup {i}
    /\ UNCHANGED <<logical, sep, raw_text, lines, merchant, date, total, result>>
    /\ UNCHANGED pipe

\* if l.startswith("YHTEENSA"): break
StopAtTotal == AtKind("stop_total") /\ ScanBody

\* if set(l) == {"-"}: i += 1; continue
SkipSeparator == AtKind("separator") /\ ScanBody

\* if "CARD TRANSACTION" in l: break
StopAtCard == AtKind("stop_card") /\ ScanBody

\* Two-line branch, the name holds a transaction code: i += 2; continue
PairRejectCode == AtKind("pair_code") /\ ScanBody

\* Two-line branch, the cleaned name has a non-item prefix: i += 2; continue
PairRejectPrefix == AtKind("pair_prefix") /\ ScanBody

\* Two-line branch, the item is appended: i += 2; continue
PairEmit == AtKind("pair_emit") /\ ScanBody

\* Two-line branch, name too short or amount not positive: i += 2; continue
PairDrop == AtKind("pair_drop") /\ ScanBody

\* Same-line branch, the name holds a transaction code: i += 1; continue
SameRejectCode == AtKind("same_code") /\ ScanBody

\* Same-line branch, the name has a non-item prefix: i += 1
SameRejectPrefix == AtKind("same_prefix") /\ ScanBody

\* Same-line branch, the item is appended: i += 1
SameEmit == AtKind("same_emit") /\ ScanBody

\* Same-line branch, name too short: i += 1
SameDrop == AtKind("same_drop") /\ ScanBody

\* Neither branch matches: i += 1
NoMatch == AtKind("no_match") /\ ScanBody

\* The while condition fails: extract_items returns items.
ScanEnd ==
    /\ pc = "items"
    /\ i >= Len(lines)
    /\ pc' = "return"
    /\ UNCHANGED <<logical, sep, raw_text, lines, merchant, date, total, i, items, visited, result>>
    /\ UNCHANGED pipe

\* return {"merchant": ..., "date": ..., "total": ..., "currency": "EUR", "items": ...}
Return ==
    /\ pc = "return"
    /\ result' = [merchant |-> merchant, date |-> date, total |-> total,
                  currency |-> EUR, items |-> items]
    /\ pc' = "done"
    /\ UNCHANGED <<logical, sep, raw_text, lines, merchant, date, total, i, items, visited>>
    /\ UNCHANGED pipe

Next ==
    \/ Normalize
    \/ ExtractMerchant
    \/ ExtractDate
    \/ ExtractTotal
    \/ StopAtTotal
    \/ SkipSeparator
    \/ StopAtCard
    \/ PairRejectCode
    \/ PairRejectPrefix
    \/ PairEmit
    \/ PairDrop
    \/ SameRejectCode
    \/ SameRejectPrefix
    \/ SameEmit
    \/ SameDrop
    \/ NoMatch
    \/ ScanEnd
    \/ Return

Spec == Init /\ [][Next]_vars

\* ================================================================ claims

Done == pc = "done"

\* The 1-based index in lines of the name line of item k.
NameLine(k) == items[k].line + 1

\* C1: no item emitted by extract_items, by the two-line branch or by the
\* same-line fallback, has a name that starts (in any case) with ALV,
\* KORTTI, PLUSSA, BONUS or PANTTI.
C1_NoNonItemName ==
    \A k \in DOMAIN items : ~HasPrefix(items[k].name, {ALV, KORTTI, PLUSSA, BONUS, PANTTI})

\* C2: every item emitted by extract_items, in either branch, has an amount
\* strictly greater than 0.
C2_AmountsPositive == \A k \in DOMAIN items : items[k].amount > 0

\* The line is exactly a standalone 2-decimal amount.
IsAmountLine(l) == IsAmountSlice(l, 1, Len(l) + 1)

\* The name line at 1-based n is followed by an amount line and matches
\* neither a rejected prefix nor the transaction-code pattern.
C3_Candidate(n) ==
    /\ n + 1 <= Len(lines)
    /\ IsAmountLine(lines[n + 1])
    /\ ~HasCode(lines[n])
    /\ ~HasPrefix(CleanName(lines[n]), PairPrefixes)

\* Exactly one item was taken from the name line at 1-based n, and it is
\* the cleaned line with the amount of the next line.
C3_OneItem(n) ==
    /\ Cardinality({k \in DOMAIN items : NameLine(k) = n}) = 1
    /\ \A k \in DOMAIN items :
           NameLine(k) = n =>
               /\ items[k].name = CleanName(lines[n])
               /\ items[k].amount = AmountOf(lines[n + 1])

\* C3 as stated: every line followed by a standalone amount line, and not
\* a rejected prefix or code, yields exactly one item {cleaned line, amount}.
C3_Original == Done => \A n \in DOMAIN lines : C3_Candidate(n) => C3_OneItem(n)

\* C3: every line that the cursor of the scan arrives at, that is neither a
\* terminator nor a separator line, is followed by a standalone amount line
\* with an amount above 0, is not a rejected prefix or code and whose
\* cleaned name has at least 3 characters, yields exactly one item
\* {cleaned line, amount}.
C3_PairYieldsOneItem ==
    Done =>
        \A n \in DOMAIN lines :
            /\ C3_Candidate(n)
            /\ (n - 1) \in visited
            /\ ~StartsWith(lines[n], YHTEENSA)
            /\ ~Contains(lines[n], CARD_TRANSACTION)
            /\ ~IsSeparator(lines[n])
            /\ Len(CleanName(lines[n])) >= 3
            /\ AmountOf(lines[n + 1]) > 0
            => C3_OneItem(n)

\* A pair was accepted and a later pair was accepted too.
C3_Witness ==
    /\ Done
    /\ \E a \in DOMAIN items, b \in DOMAIN items :
           /\ a < b
           /\ items[a].via = "pair"
           /\ items[b].via = "pair"
           /\ items[a].name = items[b].name

\* The line begins with YHTEENSA or contains CARD TRANSACTION.
IsTerminatorLine(l) == StartsWith(l, YHTEENSA) \/ Contains(l, CARD_TRANSACTION)

\* C4: once the lines hold a terminator line, no item comes from that line
\* or from a later one, and the items of the earlier lines are kept: the
\* list is the one the scan of the lines before the terminator gives.  The
\* markers are matched in their exact case: with no such line the scan
\* runs to the last line.
C4_TerminatorHalts ==
    Done =>
        /\ \A t \in DOMAIN lines :
               IsTerminatorLine(lines[t]) =>
                   /\ \A k \in DOMAIN items : NameLine(k) < t
                   /\ items = extract_items(SubSeq(lines, 1, t - 1))
        /\ (\A t \in DOMAIN lines : ~IsTerminatorLine(lines[t])) => i = Len(lines)

\* A terminator line is followed by a name line and a standalone amount
\* that the two-line branch would accept, and an earlier item is kept.
C4_Witness ==
    /\ Done
    /\ items # <<>>
    /\ \E t \in DOMAIN lines :
           /\ IsTerminatorLine(lines[t])
           /\ t + 2 <= Len(lines)
           /\ Kind(SubSeq(lines, t + 1, Len(lines)), 0) = "pair_emit"

\* Where the amount of a line "YHTEENSA<whitespace><amount>" starts; 0 when
\* the line is not of that form.
C5_AmountStart(l) ==
    LET starts == {a \in 10..Len(l) :
                       /\ \A k \in 9..(a - 1) : IsSpace(l[k])
                       /\ IsAmountSlice(l, a, Len(l) + 1)}
    IN  IF StartsWith(l, YHTEENSA) /\ starts # {} THEN Least(starts) ELSE 0

\* The amount such a line prints, in cents.
C5_Amount(l) == AmountOf(From(l, C5_AmountStart(l)))

\* C5 as stated: whenever the lines hold a line "YHTEENSA <amount A>",
\* extract_total returns A.
C5_Original ==
    Done =>
        \A k \in DOMAIN lines :
            C5_AmountStart(lines[k]) > 0 => total = C5_Amount(lines[k])

\* C5: whenever the lines hold a line "YHTEENSA <amount A>" and no earlier
\* marker line resolves to an amount, extract_total returns A, whatever
\* marker lines and amounts follow it.
C5_FirstResolvingTotalLine ==
    Done =>
        \A k \in DOMAIN lines :
            /\ C5_AmountStart(lines[k]) > 0
            /\ \A j \in 1..(k - 1) : ~TotalResolves(lines, j)
            => total = C5_Amount(lines[k])

\* The total comes from a "YHTEENSA <amount>" line, and a later line holds
\* TOTAL and is followed by a different standalone amount.
C5_Witness ==
    /\ Done
    /\ \E k \in DOMAIN lines, j \in DOMAIN lines :
           /\ C5_AmountStart(lines[k]) > 0
           /\ \A h \in 1..(k - 1) : ~TotalResolves(lines, h)
           /\ total = C5_Amount(lines[k])
           /\ k < j
           /\ j + 1 <= Len(lines)
           /\ Contains(lines[j], TOTAL)
           /\ IsAmountLine(lines[j + 1])
           /\ AmountOf(lines[j + 1]) # total

\* s[p ..] starts with a token D.M.YYYY whose day has dl and whose month
\* has ml digits.
C6_TokenAt(s, p, dl, ml) ==
    /\ p + dl + ml + 5 <= Len(s)
    /\ \A k \in p..(p + dl - 1) : IsDigit(s[k])
    /\ s[p + dl] = "."
    /\ \A k \in (p + dl + 1)..(p + dl + ml) : IsDigit(s[k])
    /\ s[p + dl + ml + 1] = "."
    /\ \A k \in (p + dl + ml + 2)..(p + dl + ml + 5) : IsDigit(s[k])

C6_HasToken(s) ==
    \E p \in DOMAIN s, dl \in {1, 2}, ml \in {1, 2} : C6_TokenAt(s, p, dl, ml)

\* One or two digits written with two digits.
C6_TwoDigits(t) == IF Len(t) = 1 THEN <<"0", t[1]>> ELSE t

\* out is YYYY-MM-DD for the first token of s.
C6_IsIsoOfFirst(s, out) ==
    \E p \in DOMAIN s, dl \in {1, 2}, ml \in {1, 2} :
        /\ C6_TokenAt(s, p, dl, ml)
        /\ \A q \in 1..(p - 1) : \A d2 \in {1, 2}, m2 \in {1, 2} : ~C6_TokenAt(s, q, d2, m2)
        /\ out = SubSeq(s, p + dl + ml + 2, p + dl + ml + 5) \o <<"-">>
                   \o C6_TwoDigits(SubSeq(s, p + dl + 1, p + dl + ml)) \o <<"-">>
                   \o C6_TwoDigits(SubSeq(s, p, p + dl - 1))

\* C6: extract_date returns the first D.M.YYYY token of the first 20 lines
\* as YYYY-MM-DD, day and month padded to two digits ("04.01.2026" gives
\* "2026-01-04"), and the empty string when none of the first 20 lines
\* holds a token, whatever the later lines hold.
C6_FirstDateInWindow ==
    Done =>
        LET hits == {k \in DOMAIN lines : k <= 20 /\ C6_HasToken(lines[k])}
        IN  /\ hits = {} => date = <<>>
            /\ \A k \in hits :
                   (\A j \in hits : k <= j) =>
                       /\ C6_IsIsoOfFirst(lines[k], date)
                       /\ lines[k] = L_Date =>
                              date = <<"2", "0", "2", "6", "-", "0", "1", "-", "0", "4">>

\* The date comes from a token with a one-digit day and month on line 20,
\* after a line that holds something close to a token.
C6_Witness ==
    /\ Done
    /\ Len(lines) >= 20
    /\ lines[20] = L_ShortDate
    /\ lines[19] = L_NoYear
    /\ date = <<"2", "0", "2", "6", "-", "0", "1", "-", "0", "4">>

\* The only token is on line 21 and the date is empty.
C6_WitnessLate ==
    /\ Done
    /\ Len(lines) >= 21
    /\ lines[21] = L_Date
    /\ date = <<>>

\* The line holds "market" in any case, or has a cased character, no
\* lower-case one and more than 5 characters.
C7_Matches(l) ==
    \/ \E p \in DOMAIN l :
           /\ p + 5 <= Len(l)
           /\ \A k \in 1..6 : LowerChar(l[p + k - 1]) = MARKET[k]
    \/ /\ Len(l) > 5
       /\ \E k \in DOMAIN l : IsUpperChar(l[k])
       /\ \A k \in DOMAIN l : ~IsLowerChar(l[k])

\* C7: extract_merchant returns the cleaned earliest matching line of the
\* first 10 lines, also when it is not line 1 (line 1 "Receipt Co", line 3
\* "STORENAME" gives "STORENAME"); the cleaned first line when none of the
\* first 10 matches; the empty string for no lines.
C7_EarliestMerchantLine ==
    Done =>
        LET hits == {k \in DOMAIN lines : k <= 10 /\ C7_Matches(lines[k])}
        IN  /\ \A k \in hits :
                   (\A j \in hits : k <= j) => merchant = CleanMerchant(lines[k])
            /\ hits = {} /\ lines # <<>> => merchant = CleanMerchant(lines[1])
            /\ lines = <<>> => merchant = <<>>
            /\ (Len(lines) >= 3 /\ lines[1] = L_First /\ lines[3] = L_Store
                   /\ ~C7_Matches(lines[2])) => merchant = L_Store

\* Line 1 is "Receipt Co", line 3 is "STORENAME" and is the merchant.
C7_Witness ==
    /\ Done
    /\ Len(lines) >= 3
    /\ lines[1] = L_First
    /\ lines[3] = L_Store
    /\ merchant = L_Store

\* The logical lines, stripped, without the empty ones, in their order.
C8_Kept ==
    SelectSeq([k \in DOMAIN logical |-> Strip(logical[k])], LAMBDA l : l # <<>>)

\* C8: the record parse_receipt_text_ returns for lines joined with "\r\n"
\* (or with "\r") is the record it returns for the same lines joined with
\* "\n", and the normalized lines are the non-empty stripped logical lines,
\* in order, repeated lines kept.
C8_LineEndingsAgree ==
    Done =>
        /\ result = parse_receipt_text_(JoinLines(logical, <<LF>>))
        /\ lines = C8_Kept

\* Lines joined with "\r\n", one of them blank and one met twice, gave a
\* record with items.
C8_Witness ==
    /\ Done
    /\ sep = <<CR, LF>>
    /\ result.items # <<>>
    /\ \E k \in DOMAIN logical : Strip(logical[k]) = <<>>
    /\ \E a \in DOMAIN lines, b \in DOMAIN lines : a < b /\ lines[a] = lines[b]

\* Lines joined with a bare "\r" gave a record with items.
C8_WitnessCR ==
    /\ Done
    /\ sep = <<CR>>
    /\ Len(lines) >= 2
    /\ result.items # <<>>

\* The record of an empty parse.
C9_EmptyRecord ==
    [merchant |-> <<>>, date |-> <<>>, total |-> None, currency |-> EUR, items |-> <<>>]

\* An upper bound of the steps parse_receipt_text_ still takes.
C9_StepsLeft ==
    CASE pc = "normalize" -> Len(raw_text) + 7
      [] pc = "merchant"  -> Len(raw_text) + 6
      [] pc = "date"      -> Len(raw_text) + 5
      [] pc = "total"     -> Len(raw_text) + 4
      [] pc = "items"     -> (Len(lines) - i) + 2
      [] pc = "return"    -> 1
      [] pc = "done"      -> 0

\* The guard of one of the actions holds: a step can be taken.
C9_CanStep ==
    \/ pc \in {"normalize", "merchant", "date", "total", "return"}
    \/ /\ pc = "items"
       /\ i <= Len(lines)
       /\ \/ i >= Len(lines)
          \/ \E k \in {"stop_total", "separator", "stop_card", "pair_code", "pair_prefix",
                        "pair_emit", "pair_drop", "same_code", "same_prefix", "same_emit",
                        "same_drop", "no_match"} : AtKind(k)

\* Until it has returned, parse_receipt_text_ has a next step; what it
\* returns is a complete record, the empty one for blank input.
C9_State ==
    /\ ~Done => C9_CanStep
    /\ C9_StepsLeft >= 0
    /\ Done =>
           /\ result = [merchant |-> merchant, date |-> date, total |-> total,
                        currency |-> EUR, items |-> items]
           /\ (\A k \in DOMAIN raw_text : IsSpace(raw_text[k])) => result = C9_EmptyRecord

\* Every step uses up the bound; a pass of the loop that does not leave it
\* moves the cursor forward; a line that matches no rule moves it by one
\* and leaves the items and the loop as they are.
C9_Step ==
    /\ C9_StepsLeft' < C9_StepsLeft
    /\ (pc = "items" /\ pc' = "items") => i' > i
    /\ AtKind("no_match") => (pc' = "items" /\ i' = i + 1 /\ items' = items)

\* C9: for every input parse_receipt_text_ terminates with a complete
\* record: it can always take a step until it has returned, the number of
\* steps left is bounded and falls with every step, the cursor of the item
\* scan strictly increases on every pass that does not stop the scan, a
\* line that matches no rule is passed over, and blank input gives
\* merchant "", date "", total None, items [] and currency "EUR".
C9_TerminatesWithRecord == [](C9_State) /\ [][C9_Step]_vars

\* A line that matched no rule was passed over and a later line still gave
\* an item.
C9_Witness ==
    /\ Done
    /\ \E n \in visited : Kind(lines, n) = "no_match"
                            /\ \E k \in DOMAIN items : items[k].line > n

\* Blank input was parsed to the end.
C9_WitnessBlank ==
    /\ Done
    /\ raw_text # <<>>
    /\ \A k \in DOMAIN raw_text : IsSpace(raw_text[k])
    /\ result = C9_EmptyRecord

\* C10: the items are in line order: the name lines of the emitted items
\* have strictly increasing indices, and each item is the one its name line
\* gives.
C10_ItemsInLineOrder ==
    /\ \A a \in DOMAIN items, b \in DOMAIN items : a < b => items[a].line < items[b].line
    /\ \A k \in DOMAIN items :
           /\ NameLine(k) \in DOMAIN lines
           /\ items[k].via = "pair" =>
                  /\ items[k].name = CleanName(lines[NameLine(k)])
                  /\ NameLine(k) + 1 \in DOMAIN lines
                  /\ items[k].amount = AmountOf(lines[NameLine(k) + 1])
           /\ items[k].via = "same" =>
                  /\ HasTrailingPrice(lines[NameLine(k)])
                  /\ items[k].name = SameLineName(lines[NameLine(k)])
                  /\ items[k].amount = SameLineAmount(lines[NameLine(k)])

\* Three items were emitted, by both branches.
C10_Witness ==
    /\ Done
    /\ Len(items) >= 3
    /\ \E a \in DOMAIN items, b \in DOMAIN items : items[a].via # items[b].via

\* ------------------------------------------------------------------------
\* The request pipeline: main calls process_drive_file, which reads the
\* file from Drive, extracts its text and calls parse_receipt_text_.

\* MIN_TEXT_CHARS_FOR_TEXT_PDF
MIN_TEXT_CHARS_FOR_TEXT_PDF == 200

\* MAX_OCR_PAGES
MAX_OCR_PAGES == 3

APPLICATION_PDF == <<"a", "p", "p", "l", "i", "c", "a", "t", "i", "o", "n", "/", "p", "d", "f">>

IMAGE_PREFIX == <<"i", "m", "a", "g", "e", "/">>

\* The status main returns for a request without a fileId.
StatusBadRequest == 400

\* The status main returns with a result.
StatusOk == 200

\* The status main returns when process_drive_file raises.
StatusError == 500

MISSING_FILE_ID == <<"Missing fileId">>

\* f"Unsupported mimeType: {mime_type}"
UnsupportedMessage(mime_type) == <<"Unsupported mimeType: ">> \o mime_type

\* f"Vision OCR error: {resp.error.message}"
VisionMessage(message) == <<"Vision OCR error: ">> \o message

WARN_SHORT_TEXT == <<"PDF text layer empty/short; treating as scanned and OCRing pages.">>

\* str(n) of a one-digit number.
DigitOf(n) == CHOOSE d \in Digits : DigitVal(d) = n

\* f"PDF has {doc.page_count} pages; OCR limited to first {MAX_OCR_PAGES}."
WarnPages(n) ==
    <<"PDF has ", DigitOf(n), " pages; OCR limited to first ", DigitOf(MAX_OCR_PAGES), ".">>

\* "\n".join(parts)
JoinParts(ps) == JoinLines(ps, <<LF>>)

\* mime_type == "application/pdf"
IsPdf(mime_type) == mime_type = APPLICATION_PDF

\* mime_type.startswith("image/"), tried after the PDF test
IsImage(mime_type) == StartsWith(mime_type, IMAGE_PREFIX)

\* len(raw_text.strip()) < MIN_TEXT_CHARS_FOR_TEXT_PDF
IsShortText(text) == Len(Strip(text)) < MIN_TEXT_CHARS_FOR_TEXT_PDF

\* A Vision reply: the call itself raised, or it returned a response with
\* an error status (code, message) and a text.
OcrRaisesOnCall(r) == r.raised

\* ocr_image_bytes_ raises: the call raised, or resp.error is set and its
\* message is not empty.
OcrRaises(r) ==
    \/ r.raised
    \/ (r.code # 0 \/ r.message # <<>>) /\ r.message # <<>>

\* The message of the exception ocr_image_bytes_ raises on reply r.
OcrMessage(r) == IF r.raised THEN r.message ELSE VisionMessage(r.message)

\* resp.full_text_annotation.text or ""
OcrText(r) == r.text

\* min(doc.page_count, MAX_OCR_PAGES)
OcrPages(n) == IF n < MAX_OCR_PAGES THEN n ELSE MAX_OCR_PAGES

\* ------------------------------------------------ the pipeline's inputs

FILE_1 == <<"f", "1">>

MIME_PNG == <<"i", "m", "a", "g", "e", "/", "p", "n", "g">>

MIME_BARE_IMAGE == <<"i", "m", "a", "g", "e", "/">>

MIME_TEXT == <<"t", "e", "x", "t", "/", "p", "l", "a", "i", "n">>

MIME_UPPER_PDF == <<"A", "p", "p", "l", "i", "c", "a", "t", "i", "o", "n", "/", "P", "D", "F">>

\* body.get("fileId"): the empty string stands for a missing or empty id.
FileIds == {<<>>, FILE_1}

\* meta.get("mimeType", ""): the empty string stands for a missing field.
MimeTypes == {APPLICATION_PDF, MIME_PNG, MIME_BARE_IMAGE, MIME_TEXT, MIME_UPPER_PDF, <<>>}

\* A receipt whose items all come from the two-line form.
TextPairs ==
    JoinParts(<<L_Volume, L_Price, L_Pantti, L_Price, L_Code, L_Price,
                L_Short, L_Price, L_Dashes, L_Total>>)

\* A receipt whose items all come from the same-line form.
TextSingles ==
    JoinParts(<<L_Item, L_Alv, L_Code, L_Short, L_Name, L_Card>>)

\* The number of lines of the long text layer.
LongTextLines == 25

\* A text layer of at least MIN_TEXT_CHARS_FOR_TEXT_PDF characters.
TextLong == JoinParts(Repeat(L_Item, LongTextLines))

\* The texts a page or an image can hold.
PipeTexts == {<<>>, TextPairs, TextSingles}

TIMEOUT == <<"timed out">>

NOT_FOUND == <<"File not found">>

BAD_IMAGE == <<"Bad image data">>

BROKEN_PDF == <<"cannot open broken document">>

\* What a Drive call or a PyMuPDF call can do: return, or raise.
Raise(message) == [raised |-> TRUE, message |-> message]

Returns == [raised |-> FALSE, message |-> <<>>]

OpenReplies == {Returns, Raise(TIMEOUT)}

MetaReplies ==
    {[raised |-> FALSE, message |-> <<>>, id |-> FILE_1, name |-> <<"r">>, mimeType |-> m] :
        m \in MimeTypes}
    \cup {[raised |-> TRUE, message |-> NOT_FOUND, id |-> <<>>, name |-> <<>>, mimeType |-> <<>>]}

DownloadReplies == {Returns, Raise(TIMEOUT)}

PdfTextReplies ==
    {[raised |-> FALSE, message |-> <<>>, text |-> t] : t \in PipeTexts \cup {TextLong}}
    \cup {[raised |-> TRUE, message |-> BROKEN_PDF, text |-> <<>>]}

\* The largest page count of a scanned PDF.
MaxPages == 4

PdfOpenReplies ==
    {[raised |-> FALSE, message |-> <<>>, page_count |-> n] : n \in 0..MaxPages}
    \cup {[raised |-> TRUE, message |-> BROKEN_PDF, page_count |-> 0]}

OcrReplies ==
    {[raised |-> FALSE, code |-> 0, message |-> <<>>, text |-> t] : t \in PipeTexts}
    \cup {[raised |-> FALSE, code |-> 3, message |-> BAD_IMAGE, text |-> <<>>],
          [raised |-> FALSE, code |-> 3, message |-> <<>>, text |-> <<>>],
          [raised |-> TRUE, code |-> 0, message |-> TIMEOUT, text |-> <<>>]}

\* ------------------------------------------------ the pipeline's steps

\* The variables of parse_receipt_text_.
parser == <<logical, sep, raw_text, pc, lines, merchant, date, total, i, items, visited, result>>

\* A request arrives: no call is made yet and the parser is not running.
PipeInit ==
    /\ logical = <<>>
    /\ sep = <<LF>>
    /\ raw_text = <<>>
    /\ pc = "idle"
    /\ lines = <<>>
    /\ merchant = <<>>
    /\ date = <<>>
    /\ total = None
    /\ i = 0
    /\ items = <<>>
    /\ visited = {}
    /\ result = NoResult
    /\ stage = "request"
    /\ file_id \in FileIds
    /\ meta = NoMeta
    /\ page_count = 0
    /\ parts = <<>>
    /\ warnings = <<>>
    /\ exc = NoExc
    /\ calls = <<>>
    /\ response = NoResponse

\* The exception with this message leaves process_drive_file.
Raises(message) ==
    /\ exc' = message
    /\ stage' = "except"

\* The call `name` was made and got reply r.
Called(name, r) == calls' = Append(calls, [call |-> name, reply |-> r])

\* if not file_id: return ({"ok": False, "error": "Missing fileId"}, 400)
RejectMissingFileId ==
    /\ stage = "request"
    /\ file_id = <<>>
    /\ response' = [ok |-> FALSE, status |-> StatusBadRequest,
                    error |-> MISSING_FILE_ID, result |-> <<>>]
    /\ stage' = "responded"
    /\ UNCHANGED <<file_id, meta, page_count, parts, warnings, exc, calls>>
    /\ UNCHANGED parser

\* try: result = process_drive_file(file_id)
AcceptRequest ==
    /\ stage = "request"
    /\ file_id # <<>>
    /\ stage' = "open"
    /\ UNCHANGED <<file_id, meta, page_count, parts, warnings, exc, calls, response>>
    /\ UNCHANGED parser

\* google.auth.default() and build("drive", "v3", ...)
OpenDrive ==
    /\ stage = "open"
    /\ \E r \in OpenReplies :
        /\ Called("open", r)
        /\ IF r.raised
           THEN Raises(r.message)
           ELSE stage' = "meta" /\ exc' = exc
    /\ UNCHANGED <<file_id, meta, page_count, parts, warnings, response>>
    /\ UNCHANGED parser

\* meta = drive.files().get(fileId=file_id, fields=...).execute()
GetMetadata ==
    /\ stage = "meta"
    /\ \E r \in MetaReplies :
        /\ Called("metadata", r)
        /\ IF r.raised
           THEN Raises(r.message) /\ meta' = meta
           ELSE /\ meta' = [id |-> r.id, name |-> r.name, mimeType |-> r.mimeType]
                /\ stage' = "download"
                /\ exc' = exc
    /\ UNCHANGED <<file_id, page_count, parts, warnings, response>>
    /\ UNCHANGED parser

\* data = download_drive_file_bytes_(drive, file_id); warnings = [];
\* raw_text = ""
Download ==
    /\ stage = "download"
    /\ \E r \in DownloadReplies :
        /\ Called("download", r)
        /\ IF r.raised
           THEN Raises(r.message)
           ELSE stage' = "extract" /\ exc' = exc
    /\ warnings' = <<>>
    /\ raw_text' = <<>>
    /\ UNCHANGED <<file_id, meta, page_count, parts, response>>
    /\ UNCHANGED <<logical, sep, pc, lines, merchant, date, total, i, items, visited, result>>

\* raw_text = extract_text_from_pdf_bytes_(data), and the test of its
\* length
ExtractPdfText ==
    /\ stage = "extract"
    /\ IsPdf(meta.mimeType)
    /\ \E r \in PdfTextReplies :
        /\ Called("pdf_text", r)
        /\ IF r.raised
           THEN Raises(r.message) /\ UNCHANGED <<raw_text, warnings>>
           ELSE /\ raw_text' = r.text
                /\ exc' = exc
                /\ IF IsShortText(r.text)
                   THEN /\ warnings' = Append(warnings, WARN_SHORT_TEXT)
                        /\ stage' = "pdf_open"
                   ELSE /\ warnings' = warnings
                        /\ stage' = "parse"
    /\ UNCHANGED <<file_id, meta, page_count, parts, response>>
    /\ UNCHANGED <<logical, sep, pc, lines, merchant, date, total, i, items, visited, result>>

\* ocr_scanned_pdf_bytes_: doc = fitz.open(...), the page limit and its
\* warning, parts = []
OpenScannedPdf ==
    /\ stage = "pdf_open"
    /\ \E r \in PdfOpenReplies :
        /\ Called("pdf_open", r)
        /\ IF r.raised
           THEN Raises(r.message) /\ UNCHANGED <<page_count, warnings>>
           ELSE /\ page_count' = r.page_count
                /\ warnings' = IF r.page_count > MAX_OCR_PAGES
                               THEN Append(warnings, WarnPages(r.page_count))
                               ELSE warnings
                /\ stage' = "pdf_ocr"
                /\ exc' = exc
    /\ parts' = <<>>
    /\ UNCHANGED <<file_id, meta, response>>
    /\ UNCHANGED parser

\* for i in range(pages): parts.append(ocr_image_bytes_(img_bytes))
OcrPage ==
    /\ stage = "pdf_ocr"
    /\ Len(parts) < OcrPages(page_count)
    /\ \E r \in OcrReplies :
        /\ Called("ocr", r)
        /\ IF OcrRaises(r)
           THEN Raises(OcrMessage(r)) /\ parts' = parts
           ELSE /\ parts' = Append(parts, OcrText(r))
                /\ UNCHANGED <<stage, exc>>
    /\ UNCHANGED <<file_id, meta, page_count, warnings, response>>
    /\ UNCHANGED parser

\* The loop is over: return "\n".join(parts)
JoinPages ==
    /\ stage = "pdf_ocr"
    /\ Len(parts) >= OcrPages(page_count)
    /\ raw_text' = JoinParts(parts)
    /\ stage' = "parse"
    /\ UNCHANGED <<file_id, meta, page_count, parts, warnings, exc, calls, response>>
    /\ UNCHANGED <<logical, sep, pc, lines, merchant, date, total, i, items, visited, result>>

\* elif mime_type.startswith("image/"): raw_text = ocr_image_bytes_(data)
OcrImage ==
    /\ stage = "extract"
    /\ ~IsPdf(meta.mimeType)
    /\ IsImage(meta.mimeType)
    /\ \E r \in OcrReplies :
        /\ Called("ocr", r)
        /\ IF OcrRaises(r)
           THEN Raises(OcrMessage(r)) /\ raw_text' = raw_text
           ELSE /\ raw_text' = OcrText(r)
                /\ stage' = "parse"
                /\ exc' = exc
    /\ UNCHANGED <<file_id, meta, page_count, parts, warnings, response>>
    /\ UNCHANGED <<logical, sep, pc, lines, merchant, date, total, i, items, visited, result>>

\* else: raise ValueError(f"Unsupported mimeType: {mime_type}")
RaiseUnsupported ==
    /\ stage = "extract"
    /\ ~IsPdf(meta.mimeType)
    /\ ~IsImage(meta.mimeType)
    /\ Raises(UnsupportedMessage(meta.mimeType))
    /\ UNCHANGED <<file_id, meta, page_count, parts, warnings, calls, response>>
    /\ UNCHANGED parser

\* parsed = parse_receipt_text_(raw_text): the parser starts on raw_text.
CallParse ==
    /\ stage = "parse"
    /\ pc = "idle"
    /\ pc' = "normalize"
    /\ logical' = SplitLines(raw_text)
    /\ sep' = <<LF>>
    /\ stage' = "parsing"
    /\ UNCHANGED <<file_id, meta, page_count, parts, warnings, exc, calls, response>>
    /\ UNCHANGED <<raw_text, lines, merchant, date, total, i, items, visited, result>>

\* datetime.now(timezone.utc).isoformat(): the clock's reading, one token.
EXTRACTED_AT == <<"now">>

\* The record process_drive_file returns for the parsed record.
ShapeResult(parsed, m, text, warns) ==
    [receipt_id |-> <<>>,
     source |-> [file_id |-> m.id, file_name |-> m.name, mime_type |-> m.mimeType],
     extracted_at |-> EXTRACTED_AT,
     merchant |-> parsed.merchant,
     date |-> parsed.date,
     total |-> parsed.total,
     currency |-> parsed.currency,
     items |-> parsed.items,
     raw_text |-> text,
     warnings |-> warns]

\* The parser has returned: process_drive_file returns the shaped record
\* and main returns {"ok": True, "result": result} with status 200.
Respond200 ==
    /\ stage = "parsing"
    /\ pc = "done"
    /\ response' = [ok |-> TRUE, status |-> StatusOk, error |-> <<>>,
                    result |-> ShapeResult(result, meta, raw_text, warnings)]
    /\ stage' = "responded"
    /\ UNCHANGED <<file_id, meta, page_count, parts, warnings, exc, calls>>
    /\ UNCHANGED parser

\* except Exception as e: return {"ok": False, "error": str(e)} with
\* status 500
Respond500 ==
    /\ stage = "except"
    /\ response' = [ok |-> FALSE, status |-> StatusError, error |-> exc, result |-> <<>>]
    /\ stage' = "responded"
    /\ UNCHANGED <<file_id, meta, page_count, parts, warnings, exc, calls>>
    /\ UNCHANGED parser

PipeNext ==
    \/ RejectMissingFileId
    \/ AcceptRequest
    \/ OpenDrive
    \/ GetMetadata
    \/ Download
    \/ ExtractPdfText
    \/ OpenScannedPdf
    \/ OcrPage
    \/ JoinPages
    \/ OcrImage
    \/ RaiseUnsupported
    \/ CallParse
    \/ Next
    \/ Respond200
    \/ Respond500

PipeSpec == PipeInit /\ [][PipeNext]_vars

\* ------------------------------------------------------------------------
\* Properties of the request pipeline.

\* main has returned.
Responded == stage = "responded"

\* The metadata call returned a MIME type that is neither application/pdf
\* nor image/<anything>.
C11_Unsupported ==
    /\ \E k \in DOMAIN calls : calls[k].call = "metadata" /\ ~calls[k].reply.raised
    /\ meta.mimeType # APPLICATION_PDF
    /\ ~(Len(meta.mimeType) >= Len(IMAGE_PREFIX)
         /\ SubSeq(meta.mimeType, 1, Len(IMAGE_PREFIX)) = IMAGE_PREFIX)

\* The download raised.
C11_DownloadRaised ==
    \E k \in DOMAIN calls : calls[k].call = "download" /\ calls[k].reply.raised

\* An OCR call failed: the call raised or its response carries an error
\* message.
C11_OcrFailedAt(k) ==
    /\ calls[k].call = "ocr"
    /\ (calls[k].reply.raised \/ calls[k].reply.message # <<>>)

C11_OcrRaised == \E k \in DOMAIN calls : C11_OcrFailedAt(k)

\* The message the failure is reported with.
C11_Message ==
    LET last == calls[Len(calls)]
    IN  IF C11_DownloadRaised THEN last.reply.message
        ELSE IF C11_OcrRaised
             THEN IF last.reply.raised THEN last.reply.message
                  ELSE <<"Vision OCR error: ">> \o last.reply.message
        ELSE <<"Unsupported mimeType: ">> \o meta.mimeType

\* The number of calls of this name made so far.
C11_Count(name) == Cardinality({k \in DOMAIN calls : calls[k].call = name})

\* C11: when the MIME type is neither application/pdf nor image/*, or the
\* download or an OCR call raises, the parser is never started, the call
\* that failed is the last call made and no call is made twice (OCR once
\* per page at most), and the response, once given, is ok = false with
\* status 500, the message of the failure and no result.
C11_FailureIsReported ==
    (C11_Unsupported \/ C11_DownloadRaised \/ C11_OcrRaised) =>
        /\ pc = "idle"
        /\ stage \in {"download", "extract", "except", "responded"}
        /\ (C11_DownloadRaised \/ C11_OcrRaised) =>
               /\ stage \in {"except", "responded"}
               /\ \A k \in DOMAIN calls :
                      (calls[k].call = "download" /\ calls[k].reply.raised) \/ C11_OcrFailedAt(k)
                          => k = Len(calls)
        /\ C11_Unsupported => C11_Count("ocr") = 0 /\ C11_Count("pdf_text") = 0
        /\ \A name \in {"open", "metadata", "download", "pdf_text", "pdf_open"} :
               C11_Count(name) <= 1
        /\ C11_Count("ocr") <= (IF C11_Count("pdf_open") = 0 THEN 1 ELSE MAX_OCR_PAGES)
        /\ Responded =>
               response = [ok |-> FALSE, status |-> 500, error |-> C11_Message,
                           result |-> <<>>]

\* The second page of a scanned PDF fails in OCR after the first page gave
\* a text: the response is the failure, not a parse of the first page.
C11_Witness ==
    /\ Responded
    /\ C11_OcrRaised
    /\ Len(parts) = 1
    /\ parts[1] = TextPairs
    /\ ~calls[Len(calls)].reply.raised

\* A text file: the download is made, then the type is refused.
C11_WitnessUnsupported ==
    /\ Responded
    /\ C11_Unsupported
    /\ meta.mimeType = MIME_TEXT
    /\ ~C11_DownloadRaised

\* The download of an image raises.
C11_WitnessDownload ==
    /\ Responded
    /\ C11_DownloadRaised
    /\ meta.mimeType = MIME_PNG

\* ------------------------------------------------------------------------
\* Further properties of extract_items and extract_total.

\* The line consists solely of "-" characters.
IsDashLine(l) == Len(l) >= 1 /\ {l[k] : k \in DOMAIN l} = {"-"}

\* The loop body is about to run at a cursor line (0-based c) that is no
\* terminator and no separator and whose next line is a standalone amount.
C12_PairAt(c) ==
    /\ c + 1 < Len(lines)
    /\ ~IsTerminatorLine(lines[c + 1])
    /\ ~IsDashLine(lines[c + 1])
    /\ IsAmountLine(lines[c + 2])

\* The step leaves the items alone or appends one item, named by the
\* cleaned cursor line and priced by the next line.
C12_AtMostOnePairItem ==
    \/ items' = items
    \/ /\ Len(items') = Len(items) + 1
       /\ SubSeq(items', 1, Len(items)) = items
       /\ items'[Len(items')].name = CleanName(lines[i + 1])
       /\ items'[Len(items')].amount = AmountOf(lines[i + 2])

C12_Step ==
    (pc = "items" /\ C12_PairAt(i)) =>
        /\ i' = i + 2
        /\ pc' = "items"
        /\ C12_AtMostOnePairItem

\* The price line of a pair the cursor stood on is never under the cursor.
C12_PriceLineSkipped == \A c \in visited : C12_PairAt(c) => (c + 1) \notin visited

\* C12: at every step of extract_items where the cursor line is no
\* terminator and no separator and the next line is a standalone amount,
\* the cursor moves on by exactly 2, at most one item is appended, its
\* amount is the next line's amount and its name the cleaned cursor line,
\* and the price line is never under the cursor.
C12_TwoLineBranchFirst == [](C12_PriceLineSkipped) /\ [][C12_Step]_vars

\* An item was taken by the two-line branch from a line that ends in a
\* price of its own, and carries the next line's amount instead.
C12_Witness ==
    /\ Done
    /\ \E k \in DOMAIN items :
           /\ items[k].via = "pair"
           /\ HasTrailingPrice(lines[NameLine(k)])
           /\ SameLineAmount(lines[NameLine(k)]) # items[k].amount
           /\ C12_PairAt(items[k].line)

\* A pair was rejected, and the line after its price line gave an item.
C12_WitnessRejected ==
    /\ Done
    /\ \E c \in visited :
           /\ C12_PairAt(c)
           /\ \A k \in DOMAIN items : items[k].line # c
           /\ \E k \in DOMAIN items : items[k].line = c + 2

\* The line contains YHTEENSA, TOTAL or SUMMA in any case.
C13_IsMarker(l) ==
    \E m \in {YHTEENSA, TOTAL, SUMMA} :
        \E p \in 1..(Len(l) - Len(m) + 1) : Upper(SubSeq(l, p, p + Len(m) - 1)) = m

\* The line begins with YHTEENSA (in any case), whitespace and an amount:
\* the pairs <<a, b>> such that the amount starts at a and its decimal
\* separator is at b.
C13_SameLine(l) ==
    {ab \in (1..Len(l)) \X (1..Len(l)) :
        /\ Len(l) >= 8
        /\ Upper(SubSeq(l, 1, 8)) = YHTEENSA
        /\ 9 < ab[1]
        /\ ab[1] < ab[2]
        /\ ab[2] + 2 <= Len(l)
        /\ \A k \in 9..(ab[1] - 1) : IsSpace(l[k])
        /\ \A k \in ab[1]..(ab[2] - 1) : IsDigit(l[k])
        /\ IsDecimalSep(l[ab[2]])
        /\ IsDigit(l[ab[2] + 1])
        /\ IsDigit(l[ab[2] + 2])}

\* The standalone amount lines among the 4 lines after the line at k.
C13_Ahead(ls, k) == {j \in (k + 1)..(k + 4) : j <= Len(ls) /\ IsAmountLine(ls[j])}

\* The marker line at k resolves.
C13_Resolves(ls, k) ==
    /\ C13_IsMarker(ls[k])
    /\ (C13_SameLine(ls[k]) # {} \/ C13_Ahead(ls, k) # {})

\* The amount the marker line at k resolves to.
C13_Amount(ls, k) ==
    IF C13_SameLine(ls[k]) # {}
    THEN LET ab == CHOOSE x \in C13_SameLine(ls[k]) : TRUE
         IN  AmountOf(SubSeq(ls[k], ab[1], ab[2] + 2))
    ELSE AmountOf(ls[Least(C13_Ahead(ls, k))])

\* C13: extract_total returns the amount of the earliest marker line that
\* resolves, on its own line or else by the first standalone amount among
\* the 4 lines after it, and None when no marker line resolves.
C13_EarliestResolvingMarker ==
    Done =>
        LET R == {k \in DOMAIN lines : C13_Resolves(lines, k)}
        IN  IF R = {} THEN total = None
            ELSE total = C13_Amount(lines, Least(R))

\* A marker line has its only standalone amount 5 lines below: it is
\* passed over, and a later marker line gives the total.
C13_Witness ==
    /\ Done
    /\ total # None
    /\ \E k \in DOMAIN lines :
           /\ C13_IsMarker(lines[k])
           /\ ~C13_Resolves(lines, k)
           /\ k + 5 <= Len(lines)
           /\ IsAmountLine(lines[k + 5])
           /\ AmountOf(lines[k + 5]) # total
           /\ \A j \in 1..(k - 1) : ~C13_Resolves(lines, j)

\* A marker line has its only standalone amount 5 lines below and no other
\* marker line resolves: the total is None.
C13_WitnessNone ==
    /\ Done
    /\ total = None
    /\ \E k \in DOMAIN lines :
           /\ C13_IsMarker(lines[k])
           /\ k + 5 <= Len(lines)
           /\ IsAmountLine(lines[k + 5])

\* The total is the first of two standalone amounts within the lookahead.
C13_WitnessFirstAhead ==
    /\ Done
    /\ \E k \in DOMAIN lines :
           /\ C13_Resolves(lines, k)
           /\ \A j \in 1..(k - 1) : ~C13_Resolves(lines, j)
           /\ C13_SameLine(lines[k]) = {}
           /\ Cardinality(C13_Ahead(lines, k)) >= 2
           /\ \E j \in C13_Ahead(lines, k) : AmountOf(lines[j]) # total

\* The names and amounts of an item list.
Printed(its) == [k \in DOMAIN its |-> [name |-> its[k].name, amount |-> its[k].amount]]

\* A step at a line of "-" characters moves the cursor on by exactly 1,
\* keeps the items and stays in the loop.
C14_Step ==
    (pc = "items" /\ i < Len(lines) /\ IsDashLine(lines[i + 1])) =>
        /\ i' = i + 1
        /\ items' = items
        /\ pc' = "items"

\* No item is named by a line of "-" characters, and with no terminator
\* line before such a line, the items are those of the lines before it
\* followed by those of the lines after it.
C14_State ==
    /\ \A k \in DOMAIN items : ~IsDashLine(lines[NameLine(k)])
    /\ Done =>
           \A t \in DOMAIN lines :
               /\ IsDashLine(lines[t])
               /\ \A j \in 1..(t - 1) : ~IsTerminatorLine(lines[j])
               => Printed(items) =
                      Printed(extract_items(SubSeq(lines, 1, t - 1)))
                          \o Printed(extract_items(SubSeq(lines, t + 1, Len(lines))))

\* C14: a line consisting solely of "-" characters never gives an item and
\* never stops the scan: the cursor moves past it by exactly 1, also when
\* the next line is a standalone amount, the items so far are kept and the
\* items of the later lines are still emitted.
C14_SeparatorSkipped == [](C14_State) /\ [][C14_Step]_vars

\* The cursor stood on a line of "-" characters followed by a standalone
\* amount, and a line after them gave an item.
C14_Witness ==
    /\ Done
    /\ \E c \in visited :
           /\ IsDashLine(lines[c + 1])
           /\ c + 2 <= Len(lines)
           /\ IsAmountLine(lines[c + 2])
           /\ \E k \in DOMAIN items : items[k].line > c

\* An item before a line of "-" characters and an item after it.
C14_WitnessBetween ==
    /\ Done
    /\ \E c \in visited :
           /\ IsDashLine(lines[c + 1])
           /\ \E k \in DOMAIN items : items[k].line < c
           /\ \E k \in DOMAIN items : items[k].line > c

\* C15: no item emitted by extract_items has a name that is itself a
\* standalone 2-decimal amount, also when two or more standalone amount
\* lines follow one another.
C15_NoAmountAsName == \A k \in DOMAIN items : ~IsAmountLine(items[k].name)

\* The marker line the total was resolved from: the earliest one that
\* resolves; 0 when there is none.
C16_TotalLine ==
    LET R == {k \in DOMAIN lines : C13_Resolves(lines, k)}
    IN  IF R = {} THEN 0 ELSE Least(R)

\* C16: the marker line from which extract_total resolves the total is
\* never the name line of an item of extract_items.
C16_TotalLineIsNoItem ==
    Done => \A k \in DOMAIN items : NameLine(k) # C16_TotalLine

====
